---- MODULE Spec2Model ----
(***************************************************************************)
(* Model of jsLogger (src/logger.js): the in-memory log, the time          *)
(* trackers kept as properties of a JavaScript Array, the formatter and    *)
(* the print function.                                                     *)
(*                                                                         *)
(* JavaScript values are records [t, s, n]: t is the kind of value, s its  *)
(* text and n its number.  Numbers are fixed-point, in thousandths: the    *)
(* JavaScript number x is Num(x * 1000), so that Date.now() = 5 is         *)
(* Num(5000) and 5 / 1000.0 is Num(5).                                     *)
(***************************************************************************)
EXTENDS Integers, Sequences, FiniteSets, TLC

\* ------------------------------------------------------------------ bounds
\* The clock runs from 0 to MaxClock milliseconds; the log holds at most
\* MaxLog entries.
MaxClock == 2
MaxLog == 2
\* The entries the log holds at most in the runs of the timer calls alone.
MaxTimerLog == 1
\* What Date.prototype.getTimezoneOffset() answers where the program runs, in
\* minutes (five hours behind UTC).
TimezoneOffset == 5 * 60

\* ------------------------------------------------------- JavaScript values
Str(s) == [t |-> "string", s |-> s, n |-> 0]
Num(milli) == [t |-> "number", s |-> "", n |-> milli]
DateOf(ms) == [t |-> "date", s |-> "", n |-> ms]
Obj(json) == [t |-> "object", s |-> json, n |-> 0]
Undefined == [t |-> "undefined", s |-> "", n |-> 0]
False == [t |-> "boolean", s |-> "false", n |-> 0]
True == [t |-> "boolean", s |-> "true", n |-> 0]
Cyclic == [t |-> "cyclic", s |-> "", n |-> 0]
FunctionValue == [t |-> "function", s |-> "", n |-> 0]
ArrayPrototype == [t |-> "prototype", s |-> "Array.prototype", n |-> 0]
Null == [t |-> "null", s |-> "", n |-> 0]
\* new Date( NaN ): a Date object that holds no time value.
InvalidDate == [t |-> "invalidDate", s |-> "", n |-> 0]
\* A property that is not there (distinct from a property holding undefined).
Absent == [t |-> "absent", s |-> "", n |-> 0]

\* typeof v
TypeOf(v) ==
  IF v.t \in {"cyclic", "date", "prototype", "null", "invalidDate"}
  THEN "object" ELSE v.t

\* The whole-number JavaScript number k.
Whole(k) == Num(k * 1000)

Digit(d) == ToString(d)

\* Number.prototype.toString for a fixed-point number: the shortest decimal,
\* so no trailing zeros and no point for a whole number.
NumberToString(milli) ==
  LET a == IF milli < 0 THEN 0 - milli ELSE milli
      sign == IF milli < 0 THEN "-" ELSE ""
      whole == a \div 1000
      frac == a % 1000
      d1 == frac \div 100
      d2 == (frac \div 10) % 10
      d3 == frac % 10
  IN  sign \o ToString(whole) \o
      (IF frac = 0 THEN ""
       ELSE IF d3 # 0 THEN "." \o Digit(d1) \o Digit(d2) \o Digit(d3)
       ELSE IF d2 # 0 THEN "." \o Digit(d1) \o Digit(d2)
       ELSE "." \o Digit(d1))

\* String concatenation's ToString of a value ( "" + v ).
ToStr(v) ==
  CASE v.t = "string" -> v.s
    [] v.t = "number" -> NumberToString(v.n)
    [] v.t = "undefined" -> "undefined"
    [] v.t = "boolean" -> v.s
    [] v.t = "null" -> "null"
    [] OTHER -> "[object Object]"

\* ------------------------------------------------ names, messages, levels
\* Timer names: an ordinary name, an array index, and three names that are
\* property names of an Array object.
Names == {"a", "0", "length", "hasOwnProperty", "__proto__"}
\* Names whose assignment creates an own data property of the array.
OwnableNames == Names \ {"length", "__proto__"}
IndexNames == {"0"}

StructuredJSON == "{\n  \"k\": 1\n}"
Messages == {Str("m"), Obj(StructuredJSON), Cyclic}
\* The level argument of add: omitted, or a function.
AddLevels == {Undefined, FunctionValue}
Sinks == {"f1", "f2"}

VARIABLES
  log,            \* this.log: the sequence of entries
  timeTracking,   \* this.timeTracking: [own, length], an Array used as a map
  printToConsole, \* this.printToConsole
  writeToFile,    \* this.writeToFile
  printFunction,  \* this.printFunction: which sink function is assigned
  printed,        \* the calls the sink functions received: <<[fn, line]>>
  now,            \* the clock, in milliseconds since the epoch
  started,        \* per name: the clock reading of the time() call that
                  \* started the timer still running, or -1
  last            \* the call just made, its outcome and what it saw

vars == <<log, timeTracking, printToConsole, writeToFile, printFunction,
          printed, now, started, last>>


\* ------------------------------------------------------------ Date -> text
Pad2(k) == IF k < 10 THEN "0" \o ToString(k) ELSE ToString(k)
Pad3(k) == IF k < 10 THEN "00" \o ToString(k)
           ELSE IF k < 100 THEN "0" \o ToString(k) ELSE ToString(k)
Pad4(k) == IF k < 1000 THEN "0" \o Pad3(k) ELSE ToString(k)

\* The text YYYY-MM-DDTHH:mm:ss.sss of a time value in milliseconds (years
\* 0..9999), by the days-to-civil-date computation of the proleptic
\* Gregorian calendar.
ISOFields(ms) ==
  LET days == ms \div 86400000
      rem == ms % 86400000
      z == days + 719468
      era == z \div 146097
      doe == z % 146097
      yoe == (doe - (doe \div 1460) + (doe \div 36524) - (doe \div 146096)) \div 365
      doy == doe - (365 * yoe + (yoe \div 4) - (yoe \div 100))
      mp == (5 * doy + 2) \div 153
      d == doy - ((153 * mp + 2) \div 5) + 1
      m == IF mp < 10 THEN mp + 3 ELSE mp - 9
      y == yoe + era * 400 + (IF m <= 2 THEN 1 ELSE 0)
  IN  Pad4(y) \o "-" \o Pad2(m) \o "-" \o Pad2(d) \o "T" \o
      Pad2(rem \div 3600000) \o ":" \o Pad2((rem \div 60000) % 60) \o ":" \o
      Pad2((rem \div 1000) % 60) \o "." \o Pad3(rem % 1000)

\* Date.prototype.toISOString
toISOString(ms) == ISOFields(ms) \o "Z"

\* dateCopy.toISOString().slice( 0, -1 ): the ISO string less its final Z.
toISOStringSliced(ms) == ISOFields(ms)

\* Results of a call that may throw: [throws, v].
Returns(v) == [throws |-> FALSE, v |-> v]
Throws == [throws |-> TRUE, v |-> Undefined]

\* jsLogger.dateToString( date, useCurrentTimezone ) with both arguments given
\* (date is not undefined); tz is what getTimezoneOffset() answers, in minutes.
dateToString(date, useCurrentTimezone, tz) ==
  CASE date.t = "null" -> Throws      \* TypeError: date.setMinutes of null
    [] date.t = "invalidDate" -> Throws   \* RangeError from toISOString()
    [] date.t = "date" ->
         LET dateCopy == IF useCurrentTimezone THEN date.n - tz * 60000 ELSE date.n
         IN  Returns(Str(toISOStringSliced(dateCopy)))
    [] OTHER -> Returns(Str(""))      \* typeof date.setMinutes !== 'function'

\* ---------------------------------------------------------- the formatter
\* JSON.stringify( v, null, 2 )
JSONstringify(v) ==
  CASE v.t = "string" -> Returns(Str("\"" \o v.s \o "\""))
    [] v.t = "number" -> Returns(Str(NumberToString(v.n)))
    [] v.t = "boolean" -> Returns(Str(v.s))
    [] v.t = "object" -> Returns(Str(v.s))
    [] v.t = "date" -> Returns(Str("\"" \o toISOString(v.n) \o "\""))
    [] v.t = "null" -> Returns(Str("null"))
    [] v.t = "invalidDate" -> Returns(Str("null"))   \* toJSON() answers null
    [] v.t = "cyclic" -> Throws           \* TypeError: circular structure
    [] OTHER -> Returns(Undefined)        \* undefined, a function

\* String.prototype.toUpperCase on the texts a level can have here.
toUpperCase(s) ==
  CASE s = "info" -> "INFO"
    [] s = "debug" -> "DEBUG"
    [] s = "warning" -> "WARNING"
    [] s = "error" -> "ERROR"
    [] s = "" -> ""
    [] s = "null" -> "NULL"
    [] s = "5" -> "5"

Entry(timestamp, message, level) ==
  [timestamp |-> timestamp, message |-> message, level |-> level]

\* logEntryCopy[ key ] after the for-in loop, for key = message or level.
Stringified(v) == IF TypeOf(v) # "string" THEN JSONstringify(v) ELSE Returns(v)

\* A faulty formatLogEntry: it stringifies into the entry itself instead of
\* into a copy of it.
formatLogEntryInPlace(logEntry, tz) ==
  IF logEntry.timestamp = Absent \/ logEntry.message = Absent \/ logEntry.level = Absent
  THEN [throws |-> FALSE, line |-> "", entry |-> logEntry]
  ELSE LET m == Stringified(logEntry.message)
           l == Stringified(logEntry.level)
           d == dateToString(logEntry.timestamp, TRUE, tz)
       IN  IF m.throws THEN [throws |-> TRUE, line |-> "", entry |-> logEntry]
           ELSE IF l.throws
           THEN [throws |-> TRUE, line |-> "",
                 entry |-> [logEntry EXCEPT !.message = m.v]]
           ELSE IF d.throws \/ l.v.t # "string"
           THEN [throws |-> TRUE, line |-> "",
                 entry |-> [logEntry EXCEPT !.message = m.v, !.level = l.v]]
           ELSE [throws |-> FALSE,
                 line |-> d.v.s \o " [" \o toUpperCase(l.v.s) \o "] : " \o ToStr(m.v),
                 entry |-> [logEntry EXCEPT !.message = m.v, !.level = l.v]]

\* A faulty formatLogEntry: it looks for the timestamp and the message of the
\* entry and takes the level for granted.
formatLogEntryLevelUnchecked(logEntry, tz) ==
  IF logEntry.timestamp = Absent \/ logEntry.message = Absent
  THEN [throws |-> FALSE, line |-> "", entry |-> logEntry]
  ELSE LET m == Stringified(logEntry.message)
           l == Stringified(logEntry.level)
           d == dateToString(logEntry.timestamp, TRUE, tz)
       IN  IF m.throws \/ l.throws \/ d.throws \/ l.v.t # "string"
           THEN [throws |-> TRUE, line |-> "", entry |-> logEntry]
           ELSE [throws |-> FALSE,
                 line |-> d.v.s \o " [" \o toUpperCase(l.v.s) \o "] : " \o ToStr(m.v),
                 entry |-> logEntry]

\* jsLogger.prototype.formatLogEntry: [throws, line, entry], where entry is
\* the argument as the call leaves it (the call writes to a copy only).
formatLogEntry(logEntry, tz) ==
  IF logEntry.timestamp = Absent \/ logEntry.message = Absent \/ logEntry.level = Absent
  THEN [throws |-> FALSE, line |-> "", entry |-> logEntry]
  ELSE LET m == Stringified(logEntry.message)
           l == Stringified(logEntry.level)
           d == dateToString(logEntry.timestamp, TRUE, tz)
       IN  IF m.throws \/ l.throws \/ d.throws \/ l.v.t # "string"
           THEN [throws |-> TRUE, line |-> "", entry |-> logEntry]
           ELSE [throws |-> FALSE,
                 line |-> d.v.s \o " [" \o toUpperCase(l.v.s) \o "] : " \o ToStr(m.v),
                 entry |-> logEntry]


\* --------------------------------------------- this.timeTracking, an Array
\* The object is [own, length]: own maps each name that can become an own
\* data property to its value or Absent; length is the array's length, an
\* own property that is always there and cannot be deleted.
EmptyArray == [own |-> [k \in OwnableNames |-> Absent], length |-> 0]

\* Whether name is an own property of the array.
IsOwn(arr, name) ==
  \/ name = "length"
  \/ name \in OwnableNames /\ arr.own[name] # Absent

\* arr[ name ]
Get(arr, name) ==
  IF name = "length" THEN Whole(arr.length)
  ELSE IF name = "__proto__" THEN ArrayPrototype
  ELSE IF arr.own[name] # Absent THEN arr.own[name]
  ELSE IF name = "hasOwnProperty" THEN FunctionValue   \* Object.prototype's
  ELSE Undefined

\* arr[ name ] = v, for a number v and a name that is not "length": the
\* __proto__ setter ignores a primitive, an index raises the length.
Put(arr, name, v) ==
  IF name = "__proto__" THEN arr
  ELSE [own |-> [arr.own EXCEPT ![name] = v],
        length |-> IF name \in IndexNames /\ arr.length < 1 THEN 1 ELSE arr.length]

\* delete arr[ name ] (outside strict mode, deleting length does nothing)
Delete(arr, name) ==
  IF name \in OwnableNames THEN [arr EXCEPT !.own[name] = Absent] ELSE arr

\* arr.hasOwnProperty( name ): the method is looked up on the array first, so
\* an own property "hasOwnProperty" holding a number makes the call throw.
hasOwnProperty(arr, name) ==
  IF TypeOf(Get(arr, "hasOwnProperty")) # "function" THEN Throws
  ELSE Returns(IF IsOwn(arr, name) THEN True ELSE False)


\* ------------------------------------------------------------------- calls
NoEntry == Entry(Absent, Absent, Absent)

\* The record of a call: what was called, how it ended ("return", or "throw"
\* with who threw: the logger's own code or the print function), the value
\* or entry it returned, and how often it called the print function.
Call(op, name, outcome, thrower, value, entry, sunk) ==
  [op |-> op, name |-> name, outcome |-> outcome, thrower |-> thrower,
   value |-> value, entry |-> entry, sunk |-> sunk]

NoCall == Call("new", "", "return", "none", Undefined, NoEntry, 0)

Init ==
  /\ log = <<>>
  /\ timeTracking = EmptyArray
  /\ printToConsole \in BOOLEAN
  /\ writeToFile \in BOOLEAN
  /\ printFunction = "f1"
  /\ printed = <<>>
  /\ now = 0
  /\ started = [k \in Names |-> -1]
  /\ last = NoCall

\* A faulty add: it catches what the print function throws and returns the
\* entry all the same.
addCatching(message, level, sinkThrows) ==
  LET lvl == IF TypeOf(level) # "undefined" THEN level ELSE Str("debug")
      logEntry == Entry(DateOf(now), message, lvl)
      f == formatLogEntry(logEntry, TimezoneOffset)
  IN  IF (writeToFile \/ printToConsole) /\ f.throws
      THEN [log |-> Append(log, f.entry), printed |-> printed,
            outcome |-> "throw", thrower |-> "logger",
            entry |-> logEntry, sunk |-> 0]
      ELSE IF printToConsole
      THEN [log |-> Append(log, f.entry),
            printed |-> Append(printed, [fn |-> printFunction, line |-> f.line]),
            outcome |-> "return", thrower |-> "none",
            entry |-> logEntry, sunk |-> 1]
      ELSE [log |-> Append(log, logEntry), printed |-> printed,
            outcome |-> "return", thrower |-> "none", entry |-> logEntry, sunk |-> 0]

\* A faulty add: it prints the line first and pushes the entry afterwards, so
\* that a print function that throws leaves the log as it was.
addPrintsBeforePush(message, level, sinkThrows) ==
  LET lvl == IF TypeOf(level) # "undefined" THEN level ELSE Str("debug")
      logEntry == Entry(DateOf(now), message, lvl)
      f == formatLogEntry(logEntry, TimezoneOffset)
  IN  IF (writeToFile \/ printToConsole) /\ f.throws
      THEN [log |-> log, printed |-> printed,
            outcome |-> "throw", thrower |-> "logger",
            entry |-> logEntry, sunk |-> 0]
      ELSE IF printToConsole
      THEN [log |-> IF sinkThrows THEN log ELSE Append(log, f.entry),
            printed |-> Append(printed, [fn |-> printFunction, line |-> f.line]),
            outcome |-> IF sinkThrows THEN "throw" ELSE "return",
            thrower |-> IF sinkThrows THEN "sink" ELSE "none",
            entry |-> logEntry, sunk |-> 1]
      ELSE [log |-> Append(log, logEntry), printed |-> printed,
            outcome |-> "return", thrower |-> "none", entry |-> logEntry, sunk |-> 0]

\* jsLogger.prototype.add( message, level ): what the call does to log and to
\* the print function, and how it ends.  sinkThrows: whether the print
\* function, if called, throws.
add(message, level, sinkThrows) ==
  LET lvl == IF TypeOf(level) # "undefined" THEN level ELSE Str("debug")
      logEntry == Entry(DateOf(now), message, lvl)
      f == formatLogEntry(logEntry, TimezoneOffset)
  IN  IF writeToFile \/ printToConsole
      THEN IF f.throws
           THEN [log |-> Append(log, f.entry), printed |-> printed,
                 outcome |-> "throw", thrower |-> "logger",
                 entry |-> logEntry, sunk |-> 0]
           ELSE IF printToConsole
           THEN [log |-> Append(log, f.entry),
                 printed |-> Append(printed, [fn |-> printFunction, line |-> f.line]),
                 outcome |-> IF sinkThrows THEN "throw" ELSE "return",
                 thrower |-> IF sinkThrows THEN "sink" ELSE "none",
                 entry |-> logEntry, sunk |-> 1]
           ELSE [log |-> Append(log, f.entry), printed |-> printed,
                 outcome |-> "return", thrower |-> "none",
                 entry |-> logEntry, sunk |-> 0]
      ELSE [log |-> Append(log, logEntry), printed |-> printed,
            outcome |-> "return", thrower |-> "none", entry |-> logEntry, sunk |-> 0]

\* A call of add or of a levelled method, as a step, with a print function
\* that throws if called (sinkThrows) or one that does not.
AppendsSink(op, message, level, sinkThrows) ==
  /\ Len(log) < MaxLog
  /\ LET r == add(message, level, sinkThrows)
     IN  /\ log' = r.log
         /\ printed' = r.printed
         /\ last' = Call(op, "", r.outcome, r.thrower, Undefined,
                          IF r.outcome = "return" THEN r.entry ELSE NoEntry, r.sunk)
  /\ UNCHANGED <<timeTracking, printToConsole, writeToFile, printFunction, now, started>>

\* A call of add or of a levelled method, as a step.
Appends(op, message, level) ==
  \E sinkThrows \in BOOLEAN : AppendsSink(op, message, level, sinkThrows)

info(message) == Appends("info", message, Str("info"))
debug(message) == Appends("debug", message, Str("debug"))
warning(message) == Appends("warning", message, Str("warning"))
error(message) == Appends("error", message, Str("error"))
addCall(message, level) == Appends("add", message, level)

\* jsLogger.prototype.time( name )
time(name) ==
  LET has == hasOwnProperty(timeTracking, name)
      arr == Put(timeTracking, name, Whole(now))
  IN  /\ IF has.throws
         THEN /\ last' = Call("time", name, "throw", "logger", Undefined, NoEntry, 0)
              /\ UNCHANGED <<timeTracking, started>>
         ELSE IF has.v = False
         THEN /\ timeTracking' = arr
              /\ last' = Call("time", name, "return", "none",
                              Get(arr, name), NoEntry, 0)
              /\ started' = IF Get(arr, name) = Whole(now)
                            THEN [started EXCEPT ![name] = now] ELSE started
         ELSE /\ last' = Call("time", name, "return", "none", False, NoEntry, 0)
              /\ UNCHANGED <<timeTracking, started>>
      /\ UNCHANGED <<log, printToConsole, writeToFile, printFunction, printed, now>>

\* A faulty elapsed time: the difference is not divided by 1000.
elapsedTimeInMilliseconds(start, end) == end.n - start.n

\* parseFloat( end - start ) / 1000.0, of two numbers
elapsedTime(start, end) == (end.n - start.n) \div 1000

\* jsLogger.prototype.timeEnd( name ); sinkThrows: whether the print function,
\* if called, throws.
timeEnd(name, sinkThrows) ==
  LET has == hasOwnProperty(timeTracking, name)
      start == Get(timeTracking, name)
      end == Whole(now)
      elapsed == Num(elapsedTime(start, end))
      message == Str("'" \o name \o "' took " \o ToStr(elapsed) \o " seconds")
  IN  /\ IF has.throws
         THEN /\ last' = Call("timeEnd", name, "throw", "logger", Undefined,
                              NoEntry, 0)
              /\ UNCHANGED <<timeTracking, started, log, printed>>
         ELSE IF has.v = True
         THEN   LET r == add(message, Undefined, sinkThrows)
                IN  /\ Len(log) < MaxLog
                    /\ timeTracking' = Delete(timeTracking, name)
                    /\ started' = [started EXCEPT ![name] = -1]
                    /\ log' = r.log
                    /\ printed' = r.printed
                    /\ last' = Call("timeEnd", name, r.outcome, r.thrower,
                                    IF r.outcome = "return" THEN elapsed ELSE Undefined,
                                    NoEntry, r.sunk)
         ELSE /\ last' = Call("timeEnd", name, "return", "none", False,
                              NoEntry, 0)
              /\ started' = [started EXCEPT ![name] = -1]
              /\ UNCHANGED <<timeTracking, log, printed>>
      /\ UNCHANGED <<printToConsole, writeToFile, printFunction, now>>

\* The entries formatLogEntry is called with from outside: a stored entry, or
\* an entry that lacks its level.
FormatInputs ==
  {log[i] : i \in 1..Len(log)} \cup {Entry(DateOf(now), Str("m"), Absent)}

\* A call of jsLogger.prototype.formatLogEntry( logEntry ), as a step.  A
\* stored entry is the same object as the one in the log, so what the call
\* does to its argument shows in the log.  The argument is kept in last.entry.
formatLogEntryCall(logEntry) ==
    LET f == formatLogEntry(logEntry, TimezoneOffset)
    IN  /\ log' = [i \in 1..Len(log) |-> IF log[i] = logEntry THEN f.entry ELSE log[i]]
        /\ last' = Call("formatLogEntry", "",
                        IF f.throws THEN "throw" ELSE "return",
                        IF f.throws THEN "logger" ELSE "none",
                        IF f.throws THEN Undefined ELSE Str(f.line), logEntry, 0)
        /\ UNCHANGED <<timeTracking, printToConsole, writeToFile, printFunction,
                       printed, now, started>>

\* A call of jsLogger.dateToString( date, useCurrentTimezone ), as a step; the
\* date it was called with is kept as the timestamp of last.entry.
dateToStringCall(date, useCurrentTimezone) ==
  LET r == dateToString(date, useCurrentTimezone, TimezoneOffset)
  IN  /\ last' = Call("dateToString", IF useCurrentTimezone THEN "local" ELSE "UTC",
                      IF r.throws THEN "throw" ELSE "return",
                      IF r.throws THEN "logger" ELSE "none",
                      r.v, Entry(date, Absent, Absent), 0)
      /\ UNCHANGED <<log, timeTracking, printToConsole, writeToFile, printFunction,
                     printed, now, started>>

\* A faulty dumpToString: it takes each entry off the log as it formats it
\* (this.log.shift()), so that the dump empties the log.
RECURSIVE dumpFromShifting(_, _, _)
dumpFromShifting(entries, i, output) ==
  IF entries = <<>> THEN [throws |-> FALSE, v |-> Str(output), entries |-> entries]
  ELSE LET f == formatLogEntry(Head(entries), TimezoneOffset)
       IN  IF f.throws THEN [throws |-> TRUE, v |-> Undefined, entries |-> entries]
           ELSE dumpFromShifting(Tail(entries), i, output \o f.line \o "\n")

\* jsLogger.prototype.dumpToString over the entries from index i on:
\* [throws, v, entries], entries being the log as the loop leaves it.
RECURSIVE dumpFrom(_, _, _)
dumpFrom(entries, i, output) ==
  IF i > Len(entries) THEN [throws |-> FALSE, v |-> Str(output), entries |-> entries]
  ELSE LET f == formatLogEntry(entries[i], TimezoneOffset)
           after == [entries EXCEPT ![i] = f.entry]
       IN  IF f.throws THEN [throws |-> TRUE, v |-> Undefined, entries |-> after]
           ELSE dumpFrom(after, i + 1, output \o f.line \o "\n")

dumpToString == dumpFrom(log, 1, "")

\* A call of jsLogger.prototype.dumpToString(), as a step.
dumpToStringCall ==
  LET r == dumpToString
  IN  /\ log' = r.entries
      /\ last' = Call("dumpToString", "", IF r.throws THEN "throw" ELSE "return",
                      IF r.throws THEN "logger" ELSE "none", r.v, NoEntry, 0)
      /\ UNCHANGED <<timeTracking, printToConsole, writeToFile, printFunction,
                     printed, now, started>>

\* jsLogger.prototype.dumpToFile( filePath ): it does nothing yet.
dumpToFile ==
  /\ last' = Call("dumpToFile", "", "return", "none", Undefined, NoEntry, 0)
  /\ UNCHANGED <<log, timeTracking, printToConsole, writeToFile, printFunction,
                 printed, now, started>>

\* log.printFunction = fn
assignPrintFunction ==
  /\ \E fn \in Sinks \ {printFunction} : printFunction' = fn
  /\ UNCHANGED <<log, timeTracking, printToConsole, writeToFile, printed, now, started, last>>

\* A millisecond passes between two calls: Date.now() and new Date() read a
\* clock that does not run backwards.
Tick ==
  /\ now < MaxClock
  /\ now' = now + 1
  /\ UNCHANGED <<log, timeTracking, printToConsole, writeToFile, printFunction,
                 printed, started, last>>

\* A logger made by new jsLogger(): it prints, and writes no file.
InitDefault ==
  /\ log = <<>>
  /\ timeTracking = EmptyArray
  /\ printToConsole = TRUE
  /\ writeToFile = FALSE
  /\ printFunction = "f1"
  /\ printed = <<>>
  /\ now = 0
  /\ started = [k \in Names |-> -1]
  /\ last = NoCall

\* A logger made by new jsLogger( printToConsole ): it writes no file.
InitLogger ==
  /\ log = <<>>
  /\ timeTracking = EmptyArray
  /\ printToConsole \in BOOLEAN
  /\ writeToFile = FALSE
  /\ printFunction = "f1"
  /\ printed = <<>>
  /\ now = 0
  /\ started = [k \in Names |-> -1]
  /\ last = NoCall

\* The timer names of the runs that are not about the timers.
LoggedNames == {"a"}

\* Every call of the logger, at one reading of the clock (SpecTimers lets
\* the clock run).
Next ==
  \/ \E message \in Messages : info(message)
  \/ \E message \in Messages : debug(message)
  \/ \E message \in Messages : warning(message)
  \/ \E message \in Messages : error(message)
  \/ \E message \in Messages : addCall(message, Undefined)
  \/ \E name \in LoggedNames : time(name)
  \/ \E name \in LoggedNames, sinkThrows \in BOOLEAN : timeEnd(name, sinkThrows)
  \/ \E logEntry \in FormatInputs : formatLogEntryCall(logEntry)
  \/ dumpToStringCall
  \/ dumpToFile

Spec == InitLogger /\ [][Next]_vars

\* The calls that append, on a logger made with any printToConsole and
\* writeToFile, at one reading of the clock.
NextAppends ==
  \/ \E message \in Messages : info(message)
  \/ \E message \in Messages : debug(message)
  \/ \E message \in Messages : warning(message)
  \/ \E message \in Messages : error(message)
  \/ \E message \in Messages, level \in AddLevels : addCall(message, level)
  \/ \E name \in LoggedNames : time(name)
  \/ \E name \in LoggedNames, sinkThrows \in BOOLEAN : timeEnd(name, sinkThrows)

SpecAppends == Init /\ [][NextAppends]_vars

\* The timer calls alone, over every name, with the clock running and a print
\* function that does not throw.
NextTimers ==
  \/ \E name \in Names : time(name)
  \/ \E name \in Names : timeEnd(name, FALSE) /\ Len(log') <= MaxTimerLog
  \/ Tick

SpecTimers == InitDefault /\ [][NextTimers]_vars

\* A logger that prints from construction on, with a print function that
\* never throws: the calls that append, the timers and the clock.
NextRealTime ==
  \/ \E message \in Messages : AppendsSink("info", message, Str("info"), FALSE)
  \/ \E message \in Messages : AppendsSink("debug", message, Str("debug"), FALSE)
  \/ \E message \in Messages : AppendsSink("warning", message, Str("warning"), FALSE)
  \/ \E message \in Messages : AppendsSink("error", message, Str("error"), FALSE)
  \/ \E message \in Messages, level \in AddLevels :
       AppendsSink("add", message, level, FALSE)
  \/ \E name \in LoggedNames : time(name)
  \/ \E name \in LoggedNames : timeEnd(name, FALSE)
  \/ Tick

SpecRealTime == InitDefault /\ [][NextRealTime]_vars

\* What a caller can pass as date to dateToString and as timestamp, message
\* and level of an entry it hands to formatLogEntry.
Dates == {DateOf(ms) : ms \in 0..MaxClock}
NonDates == {Whole(5), Str("2017-01-01"), Null, InvalidDate}
FormatMessages == {Str("m"), Obj(StructuredJSON), Whole(5), Undefined, Cyclic}
FormatLevels == {Str("info"), Str("error"), Whole(5), Null, FunctionValue}
FormatEntries ==
  {Entry(timestamp, message, level) :
     timestamp \in Dates \cup NonDates \cup {Absent},
     message \in FormatMessages \cup {Absent},
     level \in FormatLevels \cup {Absent}}

\* The formatter and the date utility called from outside, on a logger that
\* has logged nothing.
NextFormat ==
  \/ \E logEntry \in FormatEntries : formatLogEntryCall(logEntry)
  \/ \E date \in Dates \cup NonDates, useCurrentTimezone \in BOOLEAN :
       dateToStringCall(date, useCurrentTimezone)

SpecFormat == InitDefault /\ [][NextFormat]_vars

\* The calls that append and the reassignment of the print function, at one
\* reading of the clock.
NextSink ==
  \/ \E message \in Messages : info(message)
  \/ \E message \in Messages : debug(message)
  \/ \E message \in Messages : warning(message)
  \/ \E message \in Messages : error(message)
  \/ \E message \in Messages : addCall(message, Undefined)
  \/ \E name \in LoggedNames : time(name)
  \/ \E name \in LoggedNames, sinkThrows \in BOOLEAN : timeEnd(name, sinkThrows)
  \/ assignPrintFunction

SpecSink == InitLogger /\ [][NextSink]_vars


\* ================================================================ properties
LastEntry(entries) == entries[Len(entries)]

\* C1: the log is append-only: no call of the logger shortens the log, and
\* every entry keeps its index, timestamp, level and message.
C1_AppendOnly ==
  [][/\ Len(log') >= Len(log)
     /\ \A i \in 1..Len(log) : log'[i] = log[i]]_vars

\* dumpToString has formatted a log of two entries, the second one appended
\* by error() behind an entry with a structured message.
C1_Witness ==
  /\ Len(log) = 2
  /\ log[1].message = Obj(StructuredJSON)
  /\ last.op = "dumpToString"
  /\ last.outcome = "return"
  /\ log[2].level = Str("error")

\* What C2 says of a call of the levelled method lv with a message: the log
\* is the log before with one entry more, which has that message and level,
\* and the call returns that entry (unless the print function threw).
LeveledAppends(message, lv) ==
  /\ Len(log') = Len(log) + 1
  /\ \A i \in 1..Len(log) : log'[i] = log[i]
  /\ LastEntry(log').message = message
  /\ LastEntry(log').level = Str(lv)
  /\ last'.thrower # "sink" =>
       /\ last'.outcome = "return"
       /\ last'.entry = LastEntry(log')

\* C2: every info, debug, warning or error call appends one entry, behind the
\* entries of the calls before it, with the call's message and the level of
\* the method, and returns that entry.
C2_LeveledCalls ==
  [][\A message \in Messages :
       /\ info(message) => LeveledAppends(message, "info")
       /\ debug(message) => LeveledAppends(message, "debug")
       /\ warning(message) => LeveledAppends(message, "warning")
       /\ error(message) => LeveledAppends(message, "error")]_vars

\* C3: time(name), for any name with no timer running, records the clock
\* reading as the start, returns it, and the timer is active afterwards.
C3_TimeStartsTimer ==
  [][\A name \in Names :
       (time(name) /\ started[name] = -1) =>
         /\ last'.outcome = "return"
         /\ last'.value = Whole(now)
         /\ IsOwn(timeTracking', name)
         /\ Get(timeTracking', name) = Whole(now)]_vars

\* C4: time(name), for any name whose timer is running, returns false, keeps
\* the recorded start and appends nothing.
C4_TimeRejectsDuplicate ==
  [][\A name \in Names :
       (time(name) /\ started[name] # -1) =>
         /\ last'.outcome = "return"
         /\ last'.value = False
         /\ timeTracking' = timeTracking
         /\ log' = log]_vars

\* C5: timeEnd(name), for any name with no timer running, returns false
\* without raising, appends nothing, prints nothing and keeps the timers.
C5_TimeEndUnknownIsNoOp ==
  [][\A name \in Names :
       (timeEnd(name, FALSE) /\ started[name] = -1) =>
         /\ last'.outcome = "return"
         /\ last'.value = False
         /\ log' = log
         /\ printed' = printed
         /\ timeTracking' = timeTracking]_vars

\* C6: timeEnd(name), for any name whose timer is running, removes the timer,
\* appends one debug entry "'<name>' took <elapsed> seconds" and returns
\* that elapsed value.
C6_TimeEndStopsTimer ==
  [][\A name \in Names :
       (timeEnd(name, FALSE) /\ started[name] # -1) =>
         /\ ~IsOwn(timeTracking', name)
         /\ Len(log') = Len(log) + 1
         /\ \A i \in 1..Len(log) : log'[i] = log[i]
         /\ LastEntry(log').level = Str("debug")
         /\ last'.outcome = "return"
         /\ last'.value.t = "number"
         /\ LastEntry(log').message =
              Str("'" \o name \o "' took " \o ToStr(last'.value) \o " seconds")]_vars

\* C7: the value timeEnd(name) returns for a timer that time(name) started is
\* not negative and is the milliseconds between the two clock readings,
\* divided by 1000 (numbers are in thousandths: n is that count of
\* milliseconds).
C7_ElapsedSeconds ==
  [][\A name \in Names :
       (timeEnd(name, FALSE) /\ started[name] # -1 /\ last'.outcome = "return") =>
         /\ last'.value.t = "number"
         /\ last'.value.n >= 0
         /\ last'.value.n = now - started[name]]_vars

\* timeEnd( "a" ) has returned 0.002, two milliseconds after time( "a" ).
C7_Witness ==
  /\ last.op = "timeEnd"
  /\ last.name = "a"
  /\ last.outcome = "return"
  /\ last.value = Num(2)
  /\ Len(log) > 0
  /\ LastEntry(log).message = Str("'a' took 0.002 seconds")

\* C8: a time or timeEnd call for one name changes nothing for any other
\* name: not whether it is in the mapping, not its start, and not what a
\* call for it would find (hasOwnProperty's answer, the value read).
C8_TimersIndependent ==
  [][\A a \in Names :
       (time(a) \/ timeEnd(a, FALSE)) =>
         \A b \in Names \ {a} :
           /\ IsOwn(timeTracking', b) = IsOwn(timeTracking, b)
           /\ Get(timeTracking', b) = Get(timeTracking, b)
           /\ hasOwnProperty(timeTracking', b) = hasOwnProperty(timeTracking, b)]_vars

\* C9: a name is in the timer mapping exactly while a timer that time(name)
\* started is still running; only timeEnd(name) takes a name out of the
\* mapping; and time(name) for a name that is not in it starts a timer with
\* the reading of the clock.
C9_TimerLifecycle ==
  /\ [](\A name \in Names : IsOwn(timeTracking, name) <=> started[name] # -1)
  /\ [][\A name \in Names :
          (IsOwn(timeTracking, name) /\ ~IsOwn(timeTracking', name)) =>
            \E sinkThrows \in BOOLEAN : timeEnd(name, sinkThrows)]_vars
  /\ [][\A name \in Names :
          (time(name) /\ ~IsOwn(timeTracking, name)) =>
            /\ last'.value = Whole(now)
            /\ started'[name] = now]_vars

\* C10: every call that appends an entry calls the print function exactly
\* once, with formatLogEntry of that entry, if printToConsole is true, and
\* never if it is false.
C10_AppendPrintsOnce ==
  [][Len(log') = Len(log) + 1 =>
       IF printToConsole
       THEN /\ last'.sunk = 1
            /\ printed' = Append(printed,
                 [fn |-> printFunction,
                  line |-> formatLogEntry(LastEntry(log'), TimezoneOffset).line])
       ELSE /\ last'.sunk = 0
            /\ printed' = printed]_vars

\* C11: the print function is read at the call: after printFunction is
\* reassigned, every call that appends with printToConsole true hands its
\* line to the function assigned at that moment and to no other; the lines
\* handed over before stay as they were and are not handed over again.  (The
\* logger is made with the function f1; f2 is assigned by a reassignment only.)
C11_SinkReadAtCallTime ==
  [][/\ (Len(log') = Len(log) + 1 /\ printToConsole /\ printFunction = "f2") =>
          printed' = Append(printed,
            [fn |-> printFunction,
             line |-> formatLogEntry(LastEntry(log'), TimezoneOffset).line])
     /\ Len(printed') >= Len(printed)
     /\ \A i \in 1..Len(printed) : printed'[i] = printed[i]
     /\ \A i \in (Len(printed) + 1)..Len(printed') : printed'[i].fn = printFunction
     /\ assignPrintFunction => printed' = printed]_vars

\* The methods that append through add with a level of their own.
LeveledOps == {<<"info", Str("info")>>, <<"debug", Str("debug")>>,
               <<"warning", Str("warning")>>, <<"error", Str("error")>>}

\* C12: when the print function throws on the line it is handed, the call of
\* add, info, debug, warning, error or timeEnd that handed it over ends by
\* throwing what the print function threw: it returns no entry and no value.
C12_SinkFailurePropagates ==
  [][/\ \A message \in Messages :
          /\ \A o \in LeveledOps :
               (Len(printed') > Len(printed) /\ AppendsSink(o[1], message, o[2], TRUE)) =>
                 /\ last'.outcome = "throw"
                 /\ last'.thrower = "sink"
                 /\ last'.entry = NoEntry
          /\ \A level \in AddLevels :
               (Len(printed') > Len(printed) /\ AppendsSink("add", message, level, TRUE)) =>
                 /\ last'.outcome = "throw"
                 /\ last'.thrower = "sink"
                 /\ last'.entry = NoEntry
     /\ \A name \in LoggedNames :
          (Len(printed') > Len(printed) /\ timeEnd(name, TRUE)) =>
            /\ last'.outcome = "throw"
            /\ last'.thrower = "sink"
            /\ last'.value = Undefined]_vars

\* timeEnd( "a" ) has thrown what the print function threw on its line, behind
\* an error() call that ended the same way.
C12_Witness ==
  /\ last.op = "timeEnd"
  /\ last.outcome = "throw"
  /\ last.thrower = "sink"
  /\ Len(log) = 2
  /\ Len(printed) = 2
  /\ log[1].level = Str("error")
  /\ printed[2].line = "1969-12-31T19:00:00.000 [DEBUG] : 'a' took 0 seconds"

\* C13: add(message, level), with a print function that does not throw, ends
\* without raising for every message, every level and every printToConsole
\* and writeToFile: it appends the entry and returns it.
C13_AddNeverRaises ==
  [][\A message \in Messages, level \in AddLevels :
       AppendsSink("add", message, level, FALSE) =>
         /\ last'.outcome = "return"
         /\ log' = Append(log, last'.entry)
         /\ last'.entry.message = message
         /\ last'.entry.level = IF level = Undefined THEN Str("debug") ELSE level]_vars

\* An entry that lacks its timestamp, its message or its level.
Incomplete(logEntry) ==
  logEntry.timestamp = Absent \/ logEntry.message = Absent \/ logEntry.level = Absent

MessageText(message) ==
  IF message.t = "string" THEN message.s ELSE ToStr(JSONstringify(message).v)

\* C15: for every entry that has all three attributes (here: a timestamp that
\* dateToString renders, a level that is text, any message), formatLogEntry
\* returns dateToString(timestamp, local) followed by " [", the upper-cased
\* level, "] : " and the message, a string as it is and any other value as
\* its pretty-printed serialization.
C15_LineFormat ==
  [][\A logEntry \in {last'.entry} :       \* the entry the call was made with
       (/\ ~Incomplete(logEntry)
        /\ logEntry.level.t = "string"
        /\ ~dateToString(logEntry.timestamp, TRUE, TimezoneOffset).throws
        /\ formatLogEntryCall(logEntry)) =>
         /\ last'.outcome = "return"
         /\ last'.value =
              Str(dateToString(logEntry.timestamp, TRUE, TimezoneOffset).v.s \o " [" \o
                  toUpperCase(logEntry.level.s) \o "] : " \o MessageText(logEntry.message))]_vars

\* The lines of the entries, first to last, each followed by a newline.
RECURSIVE LinesOf(_)
LinesOf(entries) ==
  IF entries = <<>> THEN ""
  ELSE LinesOf(SubSeq(entries, 1, Len(entries) - 1)) \o
       formatLogEntry(LastEntry(entries), TimezoneOffset).line \o "\n"

\* C16: in every reachable state dumpToString returns formatLogEntry(e)
\* followed by a newline for every stored entry e, in the order of the log,
\* and nothing else: the empty string for an empty log.
C16_DumpIsConcatenation ==
  [][dumpToStringCall =>
       /\ last'.outcome = "return"
       /\ last'.value = Str(LinesOf(log))]_vars

\* C17: a call of dumpToString changes neither the log, the timers nor the
\* configuration and does not call the print function; a call that follows
\* another with no call between them ends as the first did, with the same
\* string; and the string a call returns is that of the entries in the log at
\* that call.
C17_DumpIsIdempotent ==
  [][(last'.op = "dumpToString" /\ dumpToStringCall) =>
       /\ log' = log
       /\ timeTracking' = timeTracking
       /\ <<printToConsole, writeToFile, printFunction>>' =
            <<printToConsole, writeToFile, printFunction>>
       /\ printed' = printed
       /\ last.op = "dumpToString" =>
            /\ last'.outcome = last.outcome
            /\ last'.value = last.value
       /\ last'.outcome = "return" => last'.value = Str(LinesOf(log'))]_vars

\* dumpToString has returned the two lines of a log that holds a structured
\* message and the entry of a timer, on a logger that does not print.
C17_Witness ==
  /\ last.op = "dumpToString"
  /\ last.outcome = "return"
  /\ ~printToConsole
  /\ printed = <<>>
  /\ Len(log) = 2
  /\ log[1].message = Obj(StructuredJSON)
  /\ last.value = Str("1969-12-31T19:00:00.000 [INFO] : " \o StructuredJSON \o "\n" \o
                      "1969-12-31T19:00:00.000 [DEBUG] : 'a' took 0 seconds\n")

\* C18: dateToString returns the empty string, without raising, for every
\* date argument that is not a valid point in time: a number, a string, null,
\* or a Date object that holds no time value.
C18_NonDateIsEmpty ==
  [][\A date \in NonDates, useCurrentTimezone \in BOOLEAN :
       dateToStringCall(date, useCurrentTimezone) =>
         /\ last'.outcome = "return"
         /\ last'.value = Str("")]_vars

\* C19: when the print function throws during add or a levelled method, the
\* entry is in the log already and stays there; when it throws during
\* timeEnd(name) of a running timer, the timer is removed and the debug entry
\* appended already, the call hands back no elapsed value (it is in the
\* entry's message only), and timeEnd(name) called again returns false and
\* appends nothing.
C19_SinkFailureNotAtomic ==
  [][/\ \A message \in Messages :
          /\ \A o \in LeveledOps :
               (last'.thrower = "sink" /\ AppendsSink(o[1], message, o[2], TRUE)) =>
                 log' = Append(log, Entry(DateOf(now), message, o[2]))
          /\ \A level \in AddLevels :
               (last'.thrower = "sink" /\ AppendsSink("add", message, level, TRUE)) =>
                 /\ Len(log') = Len(log) + 1
                 /\ \A i \in 1..Len(log) : log'[i] = log[i]
                 /\ LastEntry(log').message = message
     /\ \A name \in LoggedNames :
          /\ (last'.thrower = "sink" /\ started[name] # -1 /\ timeEnd(name, TRUE)) =>
               /\ ~IsOwn(timeTracking', name)
               /\ hasOwnProperty(timeTracking', name) = Returns(False)
               /\ log' = Append(log, Entry(DateOf(now),
                      Str("'" \o name \o "' took " \o
                          NumberToString(now - started[name]) \o " seconds"),
                      Str("debug")))
               /\ last'.value = Undefined
          /\ \A sinkThrows \in BOOLEAN :
               (/\ last.op = "timeEnd" /\ last.name = name /\ last.thrower = "sink"
                /\ timeEnd(name, sinkThrows)) =>
                 /\ last'.outcome = "return"
                 /\ last'.value = False
                 /\ log' = log
                 /\ printed' = printed]_vars

\* The print function has thrown on the line of timeEnd( "a" ): the timer is
\* gone and its entry is the last of the log.
C19_Witness ==
  /\ last.op = "timeEnd"
  /\ last.name = "a"
  /\ last.thrower = "sink"
  /\ ~IsOwn(timeTracking, "a")
  /\ started["a"] = -1
  /\ LastEntry(log) = Entry(DateOf(0), Str("'a' took 0 seconds"), Str("debug"))
  /\ printed = <<[fn |-> "f1", line |-> "1969-12-31T19:00:00.000 [DEBUG] : 'a' took 0 seconds"]>>

\* The lines the print function was handed, first to last, each followed by
\* a newline.
RECURSIVE PrintedLines(_)
PrintedLines(calls) ==
  IF calls = <<>> THEN ""
  ELSE PrintedLines(SubSeq(calls, 1, Len(calls) - 1)) \o
       calls[Len(calls)].line \o "\n"

\* C20: on a logger that prints from construction on, with a print function
\* that never throws, after any calls of add, info, debug, warning, error,
\* time and timeEnd the print function has been handed one line for every
\* entry of the log, and those lines, each followed by a newline, are the
\* string that dumpToString returns.
C20_RealTimeOutputIsDump ==
  /\ Len(printed) = Len(log)
  /\ ~dumpToString.throws
  /\ dumpToString.v = Str(PrintedLines(printed))

====
